---- MODULE Spec2Model ----
(***************************************************************************)
(* A state-machine model of bing_wallpaper_scrapper.py:                    *)
(*   - BingWallpaperScraper.download_images / download_image_with_retry    *)
(*     (the thread pool, the per-record retry loop, the files on disk);    *)
(*   - BingWallpaperScraper.get_image_urls and main (the browser, its      *)
(*     windows, the per-link loop, the cleanup).                           *)
(* Two specifications share the variables: Spec runs download_images from  *)
(* its entry, SpecDiscover runs main up to the call of download_images.    *)
(***************************************************************************)
EXTENDS Integers, Sequences, FiniteSets, TLC

\* ---------------------------------------------------------------- bounds
MaxRecords == 2      \* longest image_data list handed to download_images
MaxWorkers == 2      \* largest max_workers
MaxNames == 2        \* distinct file names
Chunks == 2          \* chunks in a response body (iter_content)

\* max_retries=3, the default of download_image_with_retry
MaxRetries == 3

Names == 1..MaxNames
AllChunks == 1..Chunks

\* A file: absent, or the set of the body's chunks it holds.
NoFile == [exists |-> FALSE, chunks |-> {}]
FullFile == [exists |-> TRUE, chunks |-> AllChunks]
EmptyFile == [exists |-> TRUE, chunks |-> {}]

\* An (image_name, image_url) tuple. What a request to image_url answers is the
\* network's choice at each request (GetOk, GetFail), so the url itself is not kept.
Records == [name : Names]

VARIABLES
    records,     \* image_data, the argument of download_images
    maxWorkers,  \* self.max_workers
    disk,        \* month_dir: file name -> file
    tpc,         \* per submitted future: queued, check, get, open, write, done, collected
    attempt,     \* per future: the loop variable of `for attempt in range(max_retries)`
    wpos,        \* per future: chunks written through its open file object
    result,      \* per future: the `success` it returned
    outcomes,    \* the (success, image_name) pairs download_images took from as_completed
    phase,       \* download_images: idle, running, returned
    run,         \* which invocation of download_images this is
    reqs,        \* history: requests.get calls per future in this invocation
    skipped,     \* history: the future returned through the already-exists branch
    clobbered,   \* history: names whose existing file was opened "wb" (truncated)
    disk0,       \* history: disk at the start of this invocation
    prevOk,      \* history: every outcome of the previous invocation was a success
    gotOk,       \* history: per future, one of its requests was answered successfully
    worker       \* per future, the pool thread that took it (0: still in the queue)

dvars == <<records, maxWorkers, disk, tpc, attempt, wpos, result, outcomes,
           phase, run, reqs, skipped, clobbered, disk0, prevOk, gotOk, worker>>

VARIABLES
    site,           \* the archive site: what the listing selectors and detail pages hold
    mpc,            \* main: init, discover, download, no_images, failed
    dpc,            \* get_image_urls: the statement it is at
    driver,         \* the local `driver`: "none" or "live"
    sidx,           \* index into `selectors` of the listing loop
    thumbnails,     \* the elements the listing selector returned
    idx,            \* `index` of the per-link loop
    image_page_url, \* href of the current thumbnail
    dsel,           \* index into `download_selectors`
    download_link,  \* the anchor found on the detail page (0: None)
    handles,        \* driver.window_handles, oldest first (0: the archive window)
    focus,          \* the window the driver is switched to (-1: a closed one)
    image_data,     \* the list being built
    exit,           \* the return statement pending while `finally` runs
    ret,            \* what get_image_urls returned
    quitCalls,      \* history: calls of driver.quit()
    opened,         \* history: detail tabs opened by window.open
    faulted,        \* history: links during whose iteration a driver call failed
    visited,        \* history: links whose iteration began
    contributed,    \* history: links that appended a record
    setupFailed,    \* history: setup_driver raised
    getFailed,      \* history: driver.get(archive_url) raised
    escaped         \* history: an exception left the per-link loop

gvars == <<site, mpc, dpc, driver, sidx, thumbnails, idx, image_page_url, dsel,
           download_link, handles, focus, image_data, exit, ret, quitCalls,
           opened, faulted, visited, contributed, setupFailed, getFailed, escaped>>

vars == <<dvars, gvars>>

N == Len(records)
Tasks == DOMAIN tpc

\* The check made against a path the files are never written to.
FileExistsWrongDir(n) == FALSE

\* os.path.exists(output_path)
FileExists(n) == disk[n].exists

NameOf(i) == records[i].name

\* The dict keyed by the record instead of the future: equal records collapse.
SubmittedTasksByRecord(recs) ==
    {i \in 1..Len(recs) : \A j \in 1..(i - 1) : recs[j] # recs[i]}

\* download_futures = {executor.submit(...): img for img in image_data}:
\* one future per element of the list.
SubmittedTasks(recs) == 1..Len(recs)

Running == {i \in Tasks : tpc[i] \in {"check", "get", "open", "write"}}

\* ThreadPoolExecutor(max_workers=self.max_workers): the pool's threads that are
\* not inside a work item.
IdleWorkers == (1..maxWorkers) \ {worker[i] : i \in Running}

\* ------------------------------------------------- urls and the archive site
\* A url is a sequence of tokens: the separators "/", ":", "." and words that
\* hold none of them. None (a missing attribute) is the empty sequence.
NoHref == <<>>

MaxLinks == 2        \* most thumbnail links a listing holds

HrefA == <<"https", ":", "/", "/", "host", "/", "detail", "/", "abc123">>
HrefB == <<"https", ":", "/", "/", "host", "/", "detail", "/", "xyz">>
AssetPng == <<"https", ":", "/", "/", "cdn", "/", "foo", ".", "png">>
AssetJpg == <<"https", ":", "/", "/", "cdn", "/", "thumb", ".", "jpg">>
AssetOriginal == <<"https", ":", "/", "/", "cdn", "/", "original">>

SetMax(S) == CHOOSE x \in S : \A y \in S : y <= x

LastIndexOf(p, c) ==
    LET at == {i \in 1..Len(p) : p[i] = c}
    IN  IF at = {} THEN 0 ELSE SetMax(at)

\* os.path.basename(p): what follows the last "/".
Basename(p) == SubSeq(p, LastIndexOf(p, "/") + 1, Len(p))

\* str.replace(old, new) for a one-character `old`.
Replace(p, old, new) == [i \in 1..Len(p) |-> IF p[i] = old THEN new ELSE p[i]]

\* os.path.splitext(p)[1]: from the last "." of the last component on, when a
\* character other than "." comes before it in that component; else "".
SplitextExt(p) ==
    LET sep == LastIndexOf(p, "/")
        dot == LastIndexOf(p, ".")
    IN  IF dot > sep /\ \E j \in (sep + 1)..(dot - 1) : p[j] # "."
          THEN SubSeq(p, dot, Len(p))
          ELSE <<>>

\* full_image_name = f"{clean_image_name}{image_ext}"
FullImageName(page_url, image_url) ==
    LET clean == Replace(Replace(Basename(page_url), "/", "_"), ":", "_")
        ext == SplitextExt(Basename(image_url))
    IN  clean \o (IF ext = <<>> THEN <<".", "jpg">> ELSE ext)

\* An <a> element of a detail page.
Anchor(dl, href) == [download |-> dl, href |-> href]

PageEmpty == <<>>
PagePng == <<Anchor(FALSE, AssetJpg), Anchor(TRUE, AssetPng)>>
PageOriginal == <<Anchor(FALSE, AssetOriginal)>>
PageBroken == <<Anchor(TRUE, NoHref)>>
DetailPages == {PageEmpty, PagePng, PageOriginal, PageBroken}

HasToken(p, w) == \E i \in 1..Len(p) : p[i] = w
HasSuffixMark(p, w) == \E i \in 1..(Len(p) - 1) : p[i] = "." /\ p[i + 1] = w

\* download_selectors listed in the reverse order.
MatchesSuffixFirst(k, a) ==
    CASE k = 1 -> HasSuffixMark(a.href, "png")
      [] k = 2 -> HasSuffixMark(a.href, "jpg")
      [] k = 3 -> HasToken(a.href, "UHD")
      [] k = 4 -> HasToken(a.href, "original")
      [] k = 5 -> a.download

\* download_selectors, in the order of the list.
Matches(k, a) ==
    CASE k = 1 -> a.download
      [] k = 2 -> HasToken(a.href, "original")
      [] k = 3 -> HasToken(a.href, "UHD")
      [] k = 4 -> HasSuffixMark(a.href, "jpg")
      [] k = 5 -> HasSuffixMark(a.href, "png")

NumDownloadSelectors == 5
NumListingSelectors == 3

\* find_element: the first element of the document that matches (0: none).
FirstMatch(k, page) ==
    LET at == {i \in 1..Len(page) : Matches(k, page[i])}
    IN  IF at = {} THEN 0 ELSE CHOOSE i \in at : \A j \in at : i <= j

\* A thumbnail link of the listing: its href and the detail page behind it.
Links ==
    [href : {HrefA, HrefB}, page : DetailPages]
        \cup {[href |-> NoHref, page |-> PageEmpty]}

\* The archive site: the first listing selector that matches (0: none does)
\* and the links it returns.
Sites ==
    {[strategy |-> 0, links |-> <<>>]}
        \cup {[strategy |-> s, links |-> l] :
                s \in 1..NumListingSelectors,
                l \in UNION {[1..n -> Links] : n \in 1..MaxLinks}}

\* A detail url of another region with the same last component as HrefA, and
\* detail pages that hold links of two selector classes each.
HrefC == <<"https", ":", "/", "/", "host", "/", "detail", "/", "uk", "/", "abc123">>
AssetUhd == <<"https", ":", "/", "/", "cdn", "/", "UHD", ".", "jpg">>

PageOriginalJpg == <<Anchor(FALSE, AssetJpg), Anchor(FALSE, AssetOriginal)>>
PageUhdPng == <<Anchor(FALSE, AssetPng), Anchor(FALSE, AssetUhd)>>
PagePngJpg == <<Anchor(FALSE, AssetPng), Anchor(FALSE, AssetJpg)>>
PageOnlyPng == <<Anchor(FALSE, AssetPng)>>
PageNav == <<Anchor(FALSE, HrefB)>>
ResolverPages ==
    {PageEmpty, PageNav, PagePng, PageOriginalJpg, PageUhdPng, PagePngJpg,
     PageOnlyPng}

ResolverLinks == [href : {HrefA, HrefB, HrefC}, page : ResolverPages]

\* Archives whose listing is found by the second listing selector.
ResolverSites ==
    {[strategy |-> 0, links |-> <<>>]}
        \cup {[strategy |-> 2, links |-> l] :
                l \in UNION {[1..n -> ResolverLinks] : n \in 1..MaxLinks}}

\* The discovery variables while download_images runs: main has called it.
DiscoverDone ==
    /\ site = [strategy |-> 0, links |-> <<>>]
    /\ mpc = "download"
    /\ dpc = "returned"
    /\ driver = "none"
    /\ sidx = 0
    /\ thumbnails = <<>>
    /\ idx = 0
    /\ image_page_url = NoHref
    /\ dsel = 0
    /\ download_link = 0
    /\ handles = <<>>
    /\ focus = -1
    /\ image_data = <<>>
    /\ exit = "end"
    /\ ret = <<>>
    /\ quitCalls = 0
    /\ opened = 0
    /\ faulted = {}
    /\ visited = {}
    /\ contributed = {}
    /\ setupFailed = FALSE
    /\ getFailed = FALSE
    /\ escaped = FALSE

\* ------------------------------------------------------------------ Init
InitDownload ==
    /\ records \in UNION {[1..n -> Records] : n \in 1..MaxRecords}
    /\ maxWorkers \in 1..MaxWorkers
    /\ disk \in [Names -> {NoFile, FullFile}]
    /\ tpc = [i \in SubmittedTasks(records) |-> "queued"]
    /\ attempt = [i \in SubmittedTasks(records) |-> 0]
    /\ wpos = [i \in SubmittedTasks(records) |-> 0]
    /\ result = [i \in SubmittedTasks(records) |-> FALSE]
    /\ reqs = [i \in SubmittedTasks(records) |-> 0]
    /\ skipped = [i \in SubmittedTasks(records) |-> FALSE]
    /\ gotOk = [i \in SubmittedTasks(records) |-> FALSE]
    /\ worker = [i \in SubmittedTasks(records) |-> 0]
    /\ outcomes = <<>>
    /\ phase = "running"
    /\ run = 1
    /\ clobbered = {}
    /\ disk0 = disk
    /\ prevOk = FALSE
    /\ DiscoverDone

\* --------------------------------------------------------------- actions

\* One thread per record instead of a pool of max_workers threads.
StartThreadPerRecord(i) ==
    /\ phase = "running"
    /\ tpc[i] = "queued"
    /\ \A j \in Tasks : tpc[j] = "queued" => i <= j
    /\ tpc' = [tpc EXCEPT ![i] = "check"]
    /\ \E w \in 1..maxWorkers : worker' = [worker EXCEPT ![i] = w]
    /\ UNCHANGED <<records, maxWorkers, disk, attempt, wpos, result, outcomes,
                   phase, run, reqs, skipped, clobbered, disk0, prevOk, gotOk>>
    /\ UNCHANGED gvars

\* A pool thread takes the next work item of the executor's FIFO queue and enters
\* download_image_with_retry: os.makedirs(month_dir, exist_ok=True) under the
\* download directory the constructor made, output_path, then the loop. Only a
\* thread that is not inside a work item reads the queue.
Start(i) ==
    /\ phase = "running"
    /\ tpc[i] = "queued"
    /\ \A j \in Tasks : tpc[j] = "queued" => i <= j
    /\ tpc' = [tpc EXCEPT ![i] = "check"]
    /\ \E w \in IdleWorkers : worker' = [worker EXCEPT ![i] = w]
    /\ UNCHANGED <<records, maxWorkers, disk, attempt, wpos, result, outcomes,
                   phase, run, reqs, skipped, clobbered, disk0, prevOk, gotOk>>
    /\ UNCHANGED gvars

\* The loop running one iteration too many (range(max_retries + 1)).
ExceptOffByOne(i) ==
    /\ attempt' = [attempt EXCEPT ![i] = @ + 1]
    /\ IF attempt[i] + 1 < MaxRetries + 1
         THEN /\ tpc' = [tpc EXCEPT ![i] = "check"]
              /\ result' = result
         ELSE /\ tpc' = [tpc EXCEPT ![i] = "done"]
              /\ result' = [result EXCEPT ![i] = FALSE]

\* `while True` in place of `for attempt in range(max_retries)`.
ExceptRetriesForever(i) ==
    /\ attempt' = attempt
    /\ tpc' = [tpc EXCEPT ![i] = "check"]
    /\ result' = result

\* `except Exception`: log, sleep(2), next iteration of the for loop; after the
\* last iteration the function returns (False, image_name).
Except(i) ==
    /\ attempt' = [attempt EXCEPT ![i] = @ + 1]
    /\ IF attempt[i] + 1 < MaxRetries
         THEN /\ tpc' = [tpc EXCEPT ![i] = "check"]
              /\ result' = result
         ELSE /\ tpc' = [tpc EXCEPT ![i] = "done"]
              /\ result' = [result EXCEPT ![i] = FALSE]

\* The existence check hoisted out of the loop: made on the first attempt only.
CheckFirstAttemptOnly(i) ==
    /\ tpc[i] = "check"
    /\ IF attempt[i] = 0 /\ FileExists(NameOf(i))
         THEN /\ tpc' = [tpc EXCEPT ![i] = "done"]
              /\ result' = [result EXCEPT ![i] = TRUE]
              /\ skipped' = [skipped EXCEPT ![i] = TRUE]
         ELSE /\ tpc' = [tpc EXCEPT ![i] = "get"]
              /\ UNCHANGED <<result, skipped>>
    /\ UNCHANGED <<records, maxWorkers, disk, attempt, wpos, outcomes,
                   phase, run, reqs, clobbered, disk0, prevOk, gotOk, worker>>
    /\ UNCHANGED gvars

\* The top of an iteration: if os.path.exists(output_path): return True.
Check(i) ==
    /\ tpc[i] = "check"
    /\ IF FileExists(NameOf(i))
         THEN /\ tpc' = [tpc EXCEPT ![i] = "done"]
              /\ result' = [result EXCEPT ![i] = TRUE]
              /\ skipped' = [skipped EXCEPT ![i] = TRUE]
         ELSE /\ tpc' = [tpc EXCEPT ![i] = "get"]
              /\ UNCHANGED <<result, skipped>>
    /\ UNCHANGED <<records, maxWorkers, disk, attempt, wpos, outcomes,
                   phase, run, reqs, clobbered, disk0, prevOk, gotOk, worker>>
    /\ UNCHANGED gvars

\* requests.get(...) and response.raise_for_status() succeed.
GetOk(i) ==
    /\ tpc[i] = "get"
    /\ reqs' = [reqs EXCEPT ![i] = @ + 1]
    /\ gotOk' = [gotOk EXCEPT ![i] = TRUE]
    /\ tpc' = [tpc EXCEPT ![i] = "open"]
    /\ UNCHANGED <<records, maxWorkers, disk, attempt, wpos, result, outcomes,
                   phase, run, skipped, clobbered, disk0, prevOk, worker>>
    /\ UNCHANGED gvars

\* requests.get(...) or response.raise_for_status() raises.
GetFail(i) ==
    /\ tpc[i] = "get"
    /\ reqs' = [reqs EXCEPT ![i] = @ + 1]
    /\ Except(i)
    /\ UNCHANGED <<records, maxWorkers, disk, wpos, outcomes,
                   phase, run, skipped, clobbered, disk0, prevOk, gotOk, worker>>
    /\ UNCHANGED gvars

\* open(output_path, "wb"): creates the file, or truncates the one there.
OpenOk(i) ==
    /\ tpc[i] = "open"
    /\ disk' = [disk EXCEPT ![NameOf(i)] = EmptyFile]
    /\ clobbered' = IF disk[NameOf(i)].exists
                      THEN clobbered \cup {NameOf(i)} ELSE clobbered
    /\ wpos' = [wpos EXCEPT ![i] = 0]
    /\ tpc' = [tpc EXCEPT ![i] = "write"]
    /\ UNCHANGED <<records, maxWorkers, attempt, result, outcomes,
                   phase, run, reqs, skipped, disk0, prevOk, gotOk, worker>>
    /\ UNCHANGED gvars

\* open(output_path, "wb") raises (OSError).
OpenFail(i) ==
    /\ tpc[i] = "open"
    /\ Except(i)
    /\ UNCHANGED <<records, maxWorkers, disk, wpos, outcomes,
                   phase, run, reqs, skipped, clobbered, disk0, prevOk, gotOk, worker>>
    /\ UNCHANGED gvars

\* One round of `for chunk in response.iter_content(): f.write(chunk)`; after
\* the last chunk the file is closed and the function returns (True, name).
WriteChunk(i) ==
    /\ tpc[i] = "write"
    /\ disk' = [disk EXCEPT ![NameOf(i)] =
                   [exists |-> TRUE, chunks |-> @.chunks \cup {wpos[i] + 1}]]
    /\ wpos' = [wpos EXCEPT ![i] = @ + 1]
    /\ IF wpos[i] + 1 = Chunks
         THEN /\ tpc' = [tpc EXCEPT ![i] = "done"]
              /\ result' = [result EXCEPT ![i] = TRUE]
         ELSE UNCHANGED <<tpc, result>>
    /\ UNCHANGED <<records, maxWorkers, attempt, outcomes,
                   phase, run, reqs, skipped, clobbered, disk0, prevOk, gotOk, worker>>
    /\ UNCHANGED gvars

\* The handler removing the part-written file before the next attempt.
StreamFailRemovesFile(i) ==
    /\ tpc[i] = "write"
    /\ Except(i)
    /\ disk' = [disk EXCEPT ![NameOf(i)] = NoFile]
    /\ UNCHANGED <<records, maxWorkers, wpos, outcomes,
                   phase, run, reqs, skipped, clobbered, disk0, prevOk, gotOk, worker>>
    /\ UNCHANGED gvars

\* The body stream raises part-way; the `with` closes the file as it is.
StreamFail(i) ==
    /\ tpc[i] = "write"
    /\ Except(i)
    /\ UNCHANGED <<records, maxWorkers, disk, wpos, outcomes,
                   phase, run, reqs, skipped, clobbered, disk0, prevOk, gotOk, worker>>
    /\ UNCHANGED gvars

\* future.result() raising for a failed record, out of download_images.
CollectRaisesOnFailure(i) ==
    /\ phase = "running"
    /\ tpc[i] = "done"
    /\ tpc' = [tpc EXCEPT ![i] = "collected"]
    /\ IF result[i]
         THEN /\ outcomes' = Append(outcomes,
                     [task |-> i, success |-> TRUE, name |-> NameOf(i)])
              /\ phase' = phase
         ELSE /\ outcomes' = outcomes
              /\ phase' = "raised"
    /\ UNCHANGED <<records, maxWorkers, disk, attempt, wpos, result,
                   run, reqs, skipped, clobbered, disk0, prevOk, gotOk, worker>>
    /\ UNCHANGED gvars

\* for future in as_completed(download_futures): success, name = future.result()
Collect(i) ==
    /\ phase = "running"
    /\ tpc[i] = "done"
    /\ tpc' = [tpc EXCEPT ![i] = "collected"]
    /\ outcomes' = Append(outcomes,
                     [task |-> i, success |-> result[i], name |-> NameOf(i)])
    /\ UNCHANGED <<records, maxWorkers, disk, attempt, wpos, result,
                   phase, run, reqs, skipped, clobbered, disk0, prevOk, gotOk, worker>>
    /\ UNCHANGED gvars

\* as_completed is exhausted, the executor shuts down, download_images returns.
Return ==
    /\ phase = "running"
    /\ \A i \in Tasks : tpc[i] = "collected"
    /\ phase' = "returned"
    /\ UNCHANGED <<records, maxWorkers, disk, tpc, attempt, wpos, result, outcomes,
                   run, reqs, skipped, clobbered, disk0, prevOk, gotOk, worker>>
    /\ UNCHANGED gvars

\* download_images is invoked again with the same image_data and month.
InvokeAgain ==
    /\ phase = "returned"
    /\ run = 1
    /\ run' = run + 1
    /\ phase' = "running"
    /\ tpc' = [i \in SubmittedTasks(records) |-> "queued"]
    /\ attempt' = [i \in SubmittedTasks(records) |-> 0]
    /\ wpos' = [i \in SubmittedTasks(records) |-> 0]
    /\ result' = [i \in SubmittedTasks(records) |-> FALSE]
    /\ reqs' = [i \in SubmittedTasks(records) |-> 0]
    /\ skipped' = [i \in SubmittedTasks(records) |-> FALSE]
    /\ gotOk' = [i \in SubmittedTasks(records) |-> FALSE]
    /\ worker' = [i \in SubmittedTasks(records) |-> 0]
    /\ prevOk' = \A k \in 1..Len(outcomes) : outcomes[k].success
    /\ outcomes' = <<>>
    /\ clobbered' = {}
    /\ disk0' = disk
    /\ UNCHANGED <<records, maxWorkers, disk>>
    /\ UNCHANGED gvars

Next ==
    \/ \E i \in Tasks : Start(i)
    \/ \E i \in Tasks : Check(i)
    \/ \E i \in Tasks : GetOk(i)
    \/ \E i \in Tasks : GetFail(i)
    \/ \E i \in Tasks : OpenOk(i)
    \/ \E i \in Tasks : OpenFail(i)
    \/ \E i \in Tasks : WriteChunk(i)
    \/ \E i \in Tasks : StreamFail(i)
    \/ \E i \in Tasks : Collect(i)
    \/ Return
    \/ InvokeAgain

Spec == InitDownload /\ [][Next]_vars

\* The steps of the pool thread that runs future i.
TaskStep(i) ==
    /\ i \in Tasks
    /\ \/ Start(i)
       \/ Check(i)
       \/ GetOk(i)
       \/ GetFail(i)
       \/ OpenOk(i)
       \/ OpenFail(i)
       \/ WriteChunk(i)
       \/ StreamFail(i)

\* download_images under a fair scheduler: a pool thread that can step does step
\* (requests.get has timeout=(10, 30), sleep(2) ends), and the calling thread
\* takes finished futures from as_completed and returns after the last one.
SpecFair ==
    /\ InitDownload
    /\ [][Next]_vars
    /\ \A i \in 1..MaxRecords : WF_vars(TaskStep(i))
    /\ WF_vars(\E i \in Tasks : Collect(i))
    /\ WF_vars(Return)

\* ------------------------------------------------- main and get_image_urls

Range(s) == {s[i] : i \in 1..Len(s)}

\* The sequence s without its element w.
Without(s, w) == SelectSeq(s, LAMBDA h : h # w)

\* The window the driver is switched to is open.
FocusLive == focus \in Range(handles)

\* `continue`, or the end of an iteration: the next thumbnail, or past the loop
\* to the finally clause and `return image_data`.
Continue ==
    /\ idx' = idx + 1
    /\ dpc' = IF idx < Len(thumbnails) THEN "attr" ELSE "finally"

\* The value of the pending return: [] of line 105, or image_data.
Returned == IF exit = "return_empty" THEN <<>> ELSE image_data

\* The state at the entry of main, before the scraper is constructed.
MainEntry ==
    /\ mpc = "init"
    /\ dpc = "setup"
    /\ driver = "none"
    /\ sidx = 0
    /\ thumbnails = <<>>
    /\ idx = 0
    /\ image_page_url = NoHref
    /\ dsel = 0
    /\ download_link = 0
    /\ handles = <<>>
    /\ focus = -1
    /\ image_data = <<>>
    /\ exit = "end"
    /\ ret = <<>>
    /\ quitCalls = 0
    /\ opened = 0
    /\ faulted = {}
    /\ visited = {}
    /\ contributed = {}
    /\ setupFailed = FALSE
    /\ getFailed = FALSE
    /\ escaped = FALSE
    /\ records = <<>>
    /\ maxWorkers = 1
    /\ disk = [n \in Names |-> NoFile]
    /\ tpc = <<>>
    /\ attempt = <<>>
    /\ wpos = <<>>
    /\ result = <<>>
    /\ reqs = <<>>
    /\ skipped = <<>>
    /\ gotOk = <<>>
    /\ worker = <<>>
    /\ outcomes = <<>>
    /\ phase = "idle"
    /\ run = 1
    /\ clobbered = {}
    /\ disk0 = disk
    /\ prevOk = FALSE

InitMain ==
    /\ site \in Sites
    /\ MainEntry

\* main run against an archive whose detail pages hold several candidate links.
InitResolve ==
    /\ site \in ResolverSites
    /\ MainEntry

\* main: scraper = BingWallpaperScraper(...) returns; get_image_urls is called.
MainInit ==
    /\ mpc = "init"
    /\ mpc' = "discover"
    /\ UNCHANGED <<site, dpc, driver, sidx, thumbnails, idx, image_page_url, dsel,
                   download_link, handles, focus, image_data, exit, ret, quitCalls,
                   opened, faulted, visited, contributed, setupFailed, getFailed,
                   escaped>>
    /\ UNCHANGED dvars

\* main: the constructor raises (os.makedirs); main's except logs it.
MainInitRaise ==
    /\ mpc = "init"
    /\ mpc' = "failed"
    /\ UNCHANGED <<site, dpc, driver, sidx, thumbnails, idx, image_page_url, dsel,
                   download_link, handles, focus, image_data, exit, ret, quitCalls,
                   opened, faulted, visited, contributed, setupFailed, getFailed,
                   escaped>>
    /\ UNCHANGED dvars

\* driver = self.setup_driver(): the browser starts with its one window.
SetupDriverOk ==
    /\ mpc = "discover"
    /\ dpc = "setup"
    /\ driver' = "live"
    /\ handles' = <<0>>
    /\ focus' = 0
    /\ dpc' = "get"
    /\ UNCHANGED <<site, mpc, sidx, thumbnails, idx, image_page_url, dsel,
                   download_link, image_data, exit, ret, quitCalls, opened,
                   faulted, visited, contributed, setupFailed, getFailed, escaped>>
    /\ UNCHANGED dvars

\* setup_driver raises: `driver` stays None; the outer except logs it.
SetupDriverRaise ==
    /\ mpc = "discover"
    /\ dpc = "setup"
    /\ setupFailed' = TRUE
    /\ dpc' = "finally"
    /\ UNCHANGED <<site, mpc, driver, sidx, thumbnails, idx, image_page_url, dsel,
                   download_link, handles, focus, image_data, exit, ret, quitCalls,
                   opened, faulted, visited, contributed, getFailed, escaped>>
    /\ UNCHANGED dvars

\* driver.get(archive_url) returns.
LoadArchiveOk ==
    /\ mpc = "discover"
    /\ dpc = "get"
    /\ sidx' = 1
    /\ dpc' = "listing"
    /\ UNCHANGED <<site, mpc, driver, thumbnails, idx, image_page_url, dsel,
                   download_link, handles, focus, image_data, exit, ret, quitCalls,
                   opened, faulted, visited, contributed, setupFailed, getFailed,
                   escaped>>
    /\ UNCHANGED dvars

\* driver.get(archive_url) raises; the outer except logs it.
LoadArchiveRaise ==
    /\ mpc = "discover"
    /\ dpc = "get"
    /\ getFailed' = TRUE
    /\ dpc' = "finally"
    /\ UNCHANGED <<site, mpc, driver, sidx, thumbnails, idx, image_page_url, dsel,
                   download_link, handles, focus, image_data, exit, ret, quitCalls,
                   opened, faulted, visited, contributed, setupFailed, escaped>>
    /\ UNCHANGED dvars

\* wait.until(presence_of_all_elements_located(...)) returns elements: break.
WaitListingFound ==
    /\ mpc = "discover"
    /\ dpc = "listing"
    /\ sidx <= NumListingSelectors
    /\ sidx = site.strategy
    /\ thumbnails' = site.links
    /\ idx' = 1
    /\ dpc' = "attr"
    /\ UNCHANGED <<site, mpc, driver, sidx, image_page_url, dsel, download_link,
                   handles, focus, image_data, exit, ret, quitCalls, opened,
                   faulted, visited, contributed, setupFailed, getFailed, escaped>>
    /\ UNCHANGED dvars

\* The selector matches nothing: TimeoutException, continue.
WaitListingTimeout ==
    /\ mpc = "discover"
    /\ dpc = "listing"
    /\ sidx <= NumListingSelectors
    /\ sidx # site.strategy
    /\ sidx' = sidx + 1
    /\ UNCHANGED <<site, mpc, dpc, driver, thumbnails, idx, image_page_url, dsel,
                   download_link, handles, focus, image_data, exit, ret, quitCalls,
                   opened, faulted, visited, contributed, setupFailed, getFailed,
                   escaped>>
    /\ UNCHANGED dvars

\* wait.until raises another WebDriverException; the outer except logs it.
WaitListingRaise ==
    /\ mpc = "discover"
    /\ dpc = "listing"
    /\ sidx <= NumListingSelectors
    /\ dpc' = "finally"
    /\ UNCHANGED <<site, mpc, driver, sidx, thumbnails, idx, image_page_url, dsel,
                   download_link, handles, focus, image_data, exit, ret, quitCalls,
                   opened, faulted, visited, contributed, setupFailed, getFailed,
                   escaped>>
    /\ UNCHANGED dvars

\* The empty listing returned from outside the try: no finally clause runs.
ListingEmptyNoCleanup ==
    /\ mpc = "discover"
    /\ dpc = "listing"
    /\ sidx > NumListingSelectors
    /\ exit' = "return_empty"
    /\ ret' = <<>>
    /\ dpc' = "returned"
    /\ UNCHANGED <<site, mpc, driver, sidx, thumbnails, idx, image_page_url, dsel,
                   download_link, handles, focus, image_data, quitCalls, opened,
                   faulted, visited, contributed, setupFailed, getFailed, escaped>>
    /\ UNCHANGED dvars

\* The empty listing raised as an error to the caller.
ListingEmptyRaises ==
    /\ mpc = "discover"
    /\ dpc = "listing"
    /\ sidx > NumListingSelectors
    /\ dpc' = "raised"
    /\ UNCHANGED <<site, mpc, driver, sidx, thumbnails, idx, image_page_url, dsel,
                   download_link, handles, focus, image_data, exit, ret, quitCalls,
                   opened, faulted, visited, contributed, setupFailed, getFailed,
                   escaped>>
    /\ UNCHANGED dvars

\* if not thumbnails: return [] (the finally clause runs first).
ListingEmpty ==
    /\ mpc = "discover"
    /\ dpc = "listing"
    /\ sidx > NumListingSelectors
    /\ exit' = "return_empty"
    /\ dpc' = "finally"
    /\ UNCHANGED <<site, mpc, driver, sidx, thumbnails, idx, image_page_url, dsel,
                   download_link, handles, focus, image_data, ret, quitCalls,
                   opened, faulted, visited, contributed, setupFailed, getFailed,
                   escaped>>
    /\ UNCHANGED dvars

\* image_page_url = thumbnail.get_attribute("href"); `continue` when it is empty.
\* The element belongs to the archive window, which must be the current one.
AttrOk ==
    /\ mpc = "discover"
    /\ dpc = "attr"
    /\ focus = 0
    /\ image_page_url' = thumbnails[idx].href
    /\ visited' = visited \cup {idx}
    /\ IF thumbnails[idx].href = NoHref
         THEN Continue
         ELSE dpc' = "open" /\ idx' = idx
    /\ UNCHANGED <<site, mpc, driver, sidx, thumbnails, dsel, download_link,
                   handles, focus, image_data, exit, ret, quitCalls, opened,
                   faulted, contributed, setupFailed, getFailed, escaped>>
    /\ UNCHANGED dvars

\* get_attribute raises: always when the archive window is not the current
\* window, otherwise as a driver failure.
AttrRaise ==
    /\ mpc = "discover"
    /\ dpc = "attr"
    /\ visited' = visited \cup {idx}
    /\ faulted' = IF focus = 0 THEN faulted \cup {idx} ELSE faulted
    /\ dpc' = "h_len"
    /\ UNCHANGED <<site, mpc, driver, sidx, thumbnails, idx, image_page_url, dsel,
                   download_link, handles, focus, image_data, exit, ret, quitCalls,
                   opened, contributed, setupFailed, getFailed, escaped>>
    /\ UNCHANGED dvars

\* driver.execute_script("window.open(...)"): a new tab, the focus stays.
OpenTabOk ==
    /\ mpc = "discover"
    /\ dpc = "open"
    /\ FocusLive
    /\ handles' = Append(handles, idx)
    /\ opened' = opened + 1
    /\ dpc' = "switch"
    /\ UNCHANGED <<site, mpc, driver, sidx, thumbnails, idx, image_page_url, dsel,
                   download_link, focus, image_data, exit, ret, quitCalls, faulted,
                   visited, contributed, setupFailed, getFailed, escaped>>
    /\ UNCHANGED dvars

\* execute_script raises: no tab was opened.
OpenTabRaise ==
    /\ mpc = "discover"
    /\ dpc = "open"
    /\ faulted' = faulted \cup {idx}
    /\ dpc' = "h_len"
    /\ UNCHANGED <<site, mpc, driver, sidx, thumbnails, idx, image_page_url, dsel,
                   download_link, handles, focus, image_data, exit, ret, quitCalls,
                   opened, visited, contributed, setupFailed, getFailed, escaped>>
    /\ UNCHANGED dvars

\* driver.switch_to.window(driver.window_handles[-1])
SwitchToTabOk ==
    /\ mpc = "discover"
    /\ dpc = "switch"
    /\ focus' = handles[Len(handles)]
    /\ dsel' = 1
    /\ download_link' = 0
    /\ dpc' = "resolve"
    /\ UNCHANGED <<site, mpc, driver, sidx, thumbnails, idx, image_page_url,
                   handles, image_data, exit, ret, quitCalls, opened, faulted,
                   visited, contributed, setupFailed, getFailed, escaped>>
    /\ UNCHANGED dvars

\* window_handles or switch_to.window raises: the tab is open, the focus is not on it.
SwitchToTabRaise ==
    /\ mpc = "discover"
    /\ dpc = "switch"
    /\ faulted' = faulted \cup {idx}
    /\ dpc' = "h_len"
    /\ UNCHANGED <<site, mpc, driver, sidx, thumbnails, idx, image_page_url, dsel,
                   download_link, handles, focus, image_data, exit, ret, quitCalls,
                   opened, visited, contributed, setupFailed, getFailed, escaped>>
    /\ UNCHANGED dvars

\* wait.until(presence_of_element_located(...)) returns the first match: break.
WaitDetailFound ==
    /\ mpc = "discover"
    /\ dpc = "resolve"
    /\ focus = idx
    /\ FirstMatch(dsel, thumbnails[idx].page) # 0
    /\ download_link' = FirstMatch(dsel, thumbnails[idx].page)
    /\ dpc' = "derive"
    /\ UNCHANGED <<site, mpc, driver, sidx, thumbnails, idx, image_page_url, dsel,
                   handles, focus, image_data, exit, ret, quitCalls, opened,
                   faulted, visited, contributed, setupFailed, getFailed, escaped>>
    /\ UNCHANGED dvars

\* `if not download_link: continue` ahead of driver.close().
WaitDetailTimeoutLeavesTab ==
    /\ mpc = "discover"
    /\ dpc = "resolve"
    /\ focus = idx
    /\ FirstMatch(dsel, thumbnails[idx].page) = 0
    /\ dsel' = IF dsel < NumDownloadSelectors THEN dsel + 1 ELSE dsel
    /\ idx' = IF dsel < NumDownloadSelectors THEN idx ELSE idx + 1
    /\ dpc' = IF dsel < NumDownloadSelectors THEN "resolve"
              ELSE IF idx < Len(thumbnails) THEN "attr" ELSE "finally"
    /\ UNCHANGED <<site, mpc, driver, sidx, thumbnails, image_page_url,
                   download_link, handles, focus, image_data, exit, ret, quitCalls,
                   opened, faulted, visited, contributed, setupFailed, getFailed,
                   escaped>>
    /\ UNCHANGED dvars

\* The selector matches nothing: TimeoutException, continue; after the last
\* selector download_link is None.
WaitDetailTimeout ==
    /\ mpc = "discover"
    /\ dpc = "resolve"
    /\ focus = idx
    /\ FirstMatch(dsel, thumbnails[idx].page) = 0
    /\ dsel' = IF dsel < NumDownloadSelectors THEN dsel + 1 ELSE dsel
    /\ dpc' = IF dsel < NumDownloadSelectors THEN "resolve" ELSE "close"
    /\ UNCHANGED <<site, mpc, driver, sidx, thumbnails, idx, image_page_url,
                   download_link, handles, focus, image_data, exit, ret, quitCalls,
                   opened, faulted, visited, contributed, setupFailed, getFailed,
                   escaped>>
    /\ UNCHANGED dvars

\* wait.until raises another WebDriverException.
WaitDetailRaise ==
    /\ mpc = "discover"
    /\ dpc = "resolve"
    /\ faulted' = faulted \cup {idx}
    /\ dpc' = "h_len"
    /\ UNCHANGED <<site, mpc, driver, sidx, thumbnails, idx, image_page_url, dsel,
                   download_link, handles, focus, image_data, exit, ret, quitCalls,
                   opened, visited, contributed, setupFailed, getFailed, escaped>>
    /\ UNCHANGED dvars

\* image_data.insert(0, ...) in place of image_data.append(...).
DeriveOkPrepends ==
    /\ mpc = "discover"
    /\ dpc = "derive"
    /\ thumbnails[idx].page[download_link].href # NoHref
    /\ image_data' = <<[name |-> FullImageName(image_page_url,
                                      thumbnails[idx].page[download_link].href),
                        url |-> thumbnails[idx].page[download_link].href,
                        link |-> idx]>> \o image_data
    /\ contributed' = contributed \cup {idx}
    /\ dpc' = "close"
    /\ UNCHANGED <<site, mpc, driver, sidx, thumbnails, idx, image_page_url, dsel,
                   download_link, handles, focus, exit, ret, quitCalls, opened,
                   faulted, visited, setupFailed, getFailed, escaped>>
    /\ UNCHANGED dvars

\* image_url = download_link.get_attribute("href"); the name is derived and the
\* pair appended to image_data (`link`, the index of the thumbnail the pair
\* came from, is a history field the program does not hold).
DeriveOk ==
    /\ mpc = "discover"
    /\ dpc = "derive"
    /\ thumbnails[idx].page[download_link].href # NoHref
    /\ image_data' = Append(image_data,
                       [name |-> FullImageName(image_page_url,
                                      thumbnails[idx].page[download_link].href),
                        url |-> thumbnails[idx].page[download_link].href,
                        link |-> idx])
    /\ contributed' = contributed \cup {idx}
    /\ dpc' = "close"
    /\ UNCHANGED <<site, mpc, driver, sidx, thumbnails, idx, image_page_url, dsel,
                   download_link, handles, focus, exit, ret, quitCalls, opened,
                   faulted, visited, setupFailed, getFailed, escaped>>
    /\ UNCHANGED dvars

\* get_attribute raises, or returns None and os.path.basename(None) raises TypeError.
DeriveRaise ==
    /\ mpc = "discover"
    /\ dpc = "derive"
    /\ faulted' = faulted \cup {idx}
    /\ dpc' = "h_len"
    /\ UNCHANGED <<site, mpc, driver, sidx, thumbnails, idx, image_page_url, dsel,
                   download_link, handles, focus, image_data, exit, ret, quitCalls,
                   opened, visited, contributed, setupFailed, getFailed, escaped>>
    /\ UNCHANGED dvars

\* driver.close(): the current window closes; the driver's focus is left on it.
CloseTabOk ==
    /\ mpc = "discover"
    /\ dpc = "close"
    /\ FocusLive
    /\ handles' = Without(handles, focus)
    /\ focus' = -1
    /\ dpc' = "back"
    /\ UNCHANGED <<site, mpc, driver, sidx, thumbnails, idx, image_page_url, dsel,
                   download_link, image_data, exit, ret, quitCalls, opened,
                   faulted, visited, contributed, setupFailed, getFailed, escaped>>
    /\ UNCHANGED dvars

\* driver.close() raises: the window stays open.
CloseTabRaise ==
    /\ mpc = "discover"
    /\ dpc = "close"
    /\ faulted' = faulted \cup {idx}
    /\ dpc' = "h_len"
    /\ UNCHANGED <<site, mpc, driver, sidx, thumbnails, idx, image_page_url, dsel,
                   download_link, handles, focus, image_data, exit, ret, quitCalls,
                   opened, visited, contributed, setupFailed, getFailed, escaped>>
    /\ UNCHANGED dvars

\* driver.switch_to.window(driver.window_handles[0]); the next iteration.
SwitchBackOk ==
    /\ mpc = "discover"
    /\ dpc = "back"
    /\ handles # <<>>
    /\ focus' = handles[1]
    /\ Continue
    /\ UNCHANGED <<site, mpc, driver, sidx, thumbnails, image_page_url, dsel,
                   download_link, handles, image_data, exit, ret, quitCalls,
                   opened, faulted, visited, contributed, setupFailed, getFailed,
                   escaped>>
    /\ UNCHANGED dvars

\* window_handles or switch_to.window raises: the focus stays on the closed tab.
SwitchBackRaise ==
    /\ mpc = "discover"
    /\ dpc = "back"
    /\ faulted' = faulted \cup {idx}
    /\ dpc' = "h_len"
    /\ UNCHANGED <<site, mpc, driver, sidx, thumbnails, idx, image_page_url, dsel,
                   download_link, handles, focus, image_data, exit, ret, quitCalls,
                   opened, visited, contributed, setupFailed, getFailed, escaped>>
    /\ UNCHANGED dvars

\* except Exception: if len(driver.window_handles) > 1: ...; continue
HandlerCountOk ==
    /\ mpc = "discover"
    /\ dpc = "h_len"
    /\ IF Len(handles) > 1
         THEN dpc' = "h_close" /\ idx' = idx
         ELSE Continue
    /\ UNCHANGED <<site, mpc, driver, sidx, thumbnails, image_page_url, dsel,
                   download_link, handles, focus, image_data, exit, ret, quitCalls,
                   opened, faulted, visited, contributed, setupFailed, getFailed,
                   escaped>>
    /\ UNCHANGED dvars

\* window_handles raises inside the handler: the exception leaves the loop
\* and the outer except logs it.
HandlerCountRaise ==
    /\ mpc = "discover"
    /\ dpc = "h_len"
    /\ escaped' = TRUE
    /\ faulted' = faulted \cup {idx}
    /\ dpc' = "finally"
    /\ UNCHANGED <<site, mpc, driver, sidx, thumbnails, idx, image_page_url, dsel,
                   download_link, handles, focus, image_data, exit, ret, quitCalls,
                   opened, visited, contributed, setupFailed, getFailed>>
    /\ UNCHANGED dvars

\* The handler's driver.close(): closes the current window, whichever it is.
HandlerCloseOk ==
    /\ mpc = "discover"
    /\ dpc = "h_close"
    /\ FocusLive
    /\ handles' = Without(handles, focus)
    /\ focus' = -1
    /\ dpc' = "h_switch"
    /\ UNCHANGED <<site, mpc, driver, sidx, thumbnails, idx, image_page_url, dsel,
                   download_link, image_data, exit, ret, quitCalls, opened,
                   faulted, visited, contributed, setupFailed, getFailed, escaped>>
    /\ UNCHANGED dvars

\* The handler's driver.close() raises: the exception leaves the loop.
HandlerCloseRaise ==
    /\ mpc = "discover"
    /\ dpc = "h_close"
    /\ escaped' = TRUE
    /\ faulted' = faulted \cup {idx}
    /\ dpc' = "finally"
    /\ UNCHANGED <<site, mpc, driver, sidx, thumbnails, idx, image_page_url, dsel,
                   download_link, handles, focus, image_data, exit, ret, quitCalls,
                   opened, visited, contributed, setupFailed, getFailed>>
    /\ UNCHANGED dvars

\* The handler's switch_to.window(window_handles[0]); continue.
HandlerSwitchOk ==
    /\ mpc = "discover"
    /\ dpc = "h_switch"
    /\ handles # <<>>
    /\ focus' = handles[1]
    /\ Continue
    /\ UNCHANGED <<site, mpc, driver, sidx, thumbnails, image_page_url, dsel,
                   download_link, handles, image_data, exit, ret, quitCalls,
                   opened, faulted, visited, contributed, setupFailed, getFailed,
                   escaped>>
    /\ UNCHANGED dvars

\* The handler's switch_to.window raises: the exception leaves the loop.
HandlerSwitchRaise ==
    /\ mpc = "discover"
    /\ dpc = "h_switch"
    /\ escaped' = TRUE
    /\ faulted' = faulted \cup {idx}
    /\ dpc' = "finally"
    /\ UNCHANGED <<site, mpc, driver, sidx, thumbnails, idx, image_page_url, dsel,
                   download_link, handles, focus, image_data, exit, ret, quitCalls,
                   opened, visited, contributed, setupFailed, getFailed>>
    /\ UNCHANGED dvars

\* finally: if driver: driver.quit(); then the pending return.
QuitOk ==
    /\ mpc = "discover"
    /\ dpc = "finally"
    /\ driver = "live"
    /\ quitCalls' = quitCalls + 1
    /\ handles' = <<>>
    /\ focus' = -1
    /\ ret' = Returned
    /\ dpc' = "returned"
    /\ UNCHANGED <<site, mpc, driver, sidx, thumbnails, idx, image_page_url, dsel,
                   download_link, image_data, exit, opened, faulted, visited,
                   contributed, setupFailed, getFailed, escaped>>
    /\ UNCHANGED dvars

\* driver.quit() raises: logged by the inner except of the finally clause.
QuitRaise ==
    /\ mpc = "discover"
    /\ dpc = "finally"
    /\ driver = "live"
    /\ quitCalls' = quitCalls + 1
    /\ ret' = Returned
    /\ dpc' = "returned"
    /\ UNCHANGED <<site, mpc, driver, sidx, thumbnails, idx, image_page_url, dsel,
                   download_link, handles, focus, image_data, exit, opened,
                   faulted, visited, contributed, setupFailed, getFailed, escaped>>
    /\ UNCHANGED dvars

\* finally with driver None: nothing to release.
FinallyNoDriver ==
    /\ mpc = "discover"
    /\ dpc = "finally"
    /\ driver = "none"
    /\ ret' = Returned
    /\ dpc' = "returned"
    /\ UNCHANGED <<site, mpc, driver, sidx, thumbnails, idx, image_page_url, dsel,
                   download_link, handles, focus, image_data, exit, quitCalls,
                   opened, faulted, visited, contributed, setupFailed, getFailed,
                   escaped>>
    /\ UNCHANGED dvars

\* main without the `if image_data` guard: download_images is always called.
MainBranchNoGuard ==
    /\ mpc = "discover"
    /\ dpc = "returned"
    /\ mpc' = "download"
    /\ UNCHANGED <<site, dpc, driver, sidx, thumbnails, idx, image_page_url, dsel,
                   download_link, handles, focus, image_data, exit, ret, quitCalls,
                   opened, faulted, visited, contributed, setupFailed, getFailed,
                   escaped>>
    /\ UNCHANGED dvars

\* main: if image_data: scraper.download_images(...) else: logging.error(...)
MainBranch ==
    /\ mpc = "discover"
    /\ dpc = "returned"
    /\ mpc' = IF ret # <<>> THEN "download" ELSE "no_images"
    /\ UNCHANGED <<site, dpc, driver, sidx, thumbnails, idx, image_page_url, dsel,
                   download_link, handles, focus, image_data, exit, ret, quitCalls,
                   opened, faulted, visited, contributed, setupFailed, getFailed,
                   escaped>>
    /\ UNCHANGED dvars

NextDiscover ==
    \/ MainInit
    \/ MainInitRaise
    \/ SetupDriverOk
    \/ SetupDriverRaise
    \/ LoadArchiveOk
    \/ LoadArchiveRaise
    \/ WaitListingFound
    \/ WaitListingTimeout
    \/ WaitListingRaise
    \/ ListingEmpty
    \/ AttrOk
    \/ AttrRaise
    \/ OpenTabOk
    \/ OpenTabRaise
    \/ SwitchToTabOk
    \/ SwitchToTabRaise
    \/ WaitDetailFound
    \/ WaitDetailTimeout
    \/ WaitDetailRaise
    \/ DeriveOk
    \/ DeriveRaise
    \/ CloseTabOk
    \/ CloseTabRaise
    \/ SwitchBackOk
    \/ SwitchBackRaise
    \/ HandlerCountOk
    \/ HandlerCountRaise
    \/ HandlerCloseOk
    \/ HandlerCloseRaise
    \/ HandlerSwitchOk
    \/ HandlerSwitchRaise
    \/ QuitOk
    \/ QuitRaise
    \/ FinallyNoDriver
    \/ MainBranch

SpecDiscover == InitMain /\ [][NextDiscover]_vars

SpecResolve == InitResolve /\ [][NextDiscover]_vars

\* ------------------------------------------------ download_images: claims

Finished(i) == tpc[i] \in {"done", "collected"}

OutcomesOf(i) == {k \in 1..Len(outcomes) : outcomes[k].task = i}

\* C1: when download_images returns it has taken exactly one outcome per element
\* of image_data -- N in all, none dropped, none twice -- and each outcome carries
\* the name of its own record.
C1_OneOutcomePerRecord ==
    phase = "returned" =>
        /\ Len(outcomes) = N
        /\ \A i \in 1..N :
             /\ Cardinality(OutcomesOf(i)) = 1
             /\ \A k \in OutcomesOf(i) : outcomes[k].name = records[i].name

\* C1 witness: two records on two workers, one outcome a failure and one a
\* success, taken in the reverse of the input order.
C1_Witness ==
    /\ phase = "returned" /\ N = 2 /\ maxWorkers = 2
    /\ Len(outcomes) = 2
    /\ outcomes[1].task = 2 /\ outcomes[1].success
    /\ outcomes[2].task = 1 /\ ~outcomes[2].success

\* C2: a record that has been reported as success has its whole body in the file
\* at its target path (a part-written file is never visible there).
C2_SuccessMeansWholeBody ==
    \A i \in Tasks :
        (Finished(i) /\ result[i]) => disk[NameOf(i)] = FullFile

\* C3: no file that exists at a target path is ever truncated or overwritten.
C3_NeverOverwrites == clobbered = {}

SecondRunClean ==
    /\ disk = disk0
    /\ \A i \in Tasks : reqs[i] = 0
    /\ phase = "returned" => \A k \in 1..Len(outcomes) : outcomes[k].success

\* C4 as stated: any second invocation on the same records and directory reports
\* success for every record, issues no request and changes no file.
C4_SecondRunAlwaysClean == run >= 2 => SecondRunClean

\* C4 amended: a second invocation that follows one which reported success for
\* every record reports success for every record, issues no request and changes
\* no file.
C4_SecondRunCleanAfterSuccess == (run >= 2 /\ prevOk) => SecondRunClean

\* C4 witness: the second invocation has returned after a first that reported
\* success for two records with different names, one file written by that first run.
C4_Witness ==
    /\ run = 2 /\ phase = "returned" /\ prevOk
    /\ N = 2 /\ Len(outcomes) = 2
    /\ NameOf(1) # NameOf(2)
    /\ \E n \in Names : disk[n].exists /\ disk[n].chunks # AllChunks

\* Every request this record has issued so far has failed.
EveryRequestFailed(i) == ~gotOk[i]

\* C5 as stated: a record whose url fails on every request ends as a failure
\* after exactly max_retries requests.
C5_DeadUrlAlwaysExhausts ==
    \A i \in Tasks :
        (Finished(i) /\ EveryRequestFailed(i)) =>
            (reqs[i] = MaxRetries /\ ~result[i])

\* C5 amended: a record whose url fails on every request, and whose target file
\* is absent at the entry of every attempt, ends as a failure after exactly
\* max_retries requests; no record issues more than max_retries requests.
C5_DeadUrlExhaustsUnlessFileExists ==
    \A i \in Tasks :
        /\ reqs[i] <= MaxRetries
        /\ (Finished(i) /\ EveryRequestFailed(i) /\ ~skipped[i]) =>
              (reqs[i] = MaxRetries /\ ~result[i])

\* C5 witness: a record all of whose requests failed has finished without ever
\* finding its file, while a sibling was downloaded.
C5_Witness ==
    \E i, j \in Tasks :
        /\ Finished(i) /\ EveryRequestFailed(i) /\ ~skipped[i]
        /\ reqs[i] = MaxRetries /\ ~result[i]
        /\ Finished(j) /\ gotOk[j] /\ result[j]

\* C6: every attempt that begins while the target file exists issues no request
\* and ends the record as a success, on whichever attempt it is.
C6_CheckOnEveryAttempt ==
    [][\A i \in Tasks :
         (tpc[i] = "check" /\ FileExists(NameOf(i)) /\ i \in DOMAIN tpc'
            /\ tpc'[i] # "check")
         => (tpc'[i] = "done" /\ result'[i] /\ reqs'[i] = reqs[i])]_vars

\* C6 witness: a record found its file at the entry of a later attempt, after a
\* request of its own had failed.
C6_Witness ==
    \E i \in Tasks :
        Finished(i) /\ skipped[i] /\ attempt[i] >= 1 /\ reqs[i] >= 1 /\ result[i]

\* ------------------------------------------------- get_image_urls: claims

\* The link has an href and its detail page resolves: the first selector that
\* matches finds an anchor with an href.
ResolvesCleanly(link) ==
    /\ link.href # NoHref
    /\ \E k \in 1..NumDownloadSelectors :
         /\ FirstMatch(k, link.page) # 0
         /\ \A j \in 1..(k - 1) : FirstMatch(j, link.page) = 0
         /\ link.page[FirstMatch(k, link.page)].href # NoHref

\* C7: whatever failed while earlier links were processed, when get_image_urls
\* returns after entering the per-link loop every link of the listing has had its
\* iteration, and every link that resolves cleanly and met no failure of its own
\* has contributed its record.
C7_FailureNeverEndsLoop ==
    (dpc = "returned" /\ thumbnails # <<>>) =>
        \A k \in 1..Len(thumbnails) :
            /\ k \in visited
            /\ (ResolvesCleanly(thumbnails[k]) /\ k \notin faulted)
                  => k \in contributed

C9_EmptyListing ==
    site.strategy = 0 =>
        /\ dpc # "raised"
        /\ opened = 0
        /\ Len(handles) <= 1
        /\ dpc = "returned" => ret = <<>>

\* C9 witness: all three listing selectors timed out and the empty list was
\* returned after the browser was released.
C9_Witness ==
    /\ site.strategy = 0 /\ sidx > NumListingSelectors
    /\ dpc = "returned" /\ exit = "return_empty" /\ quitCalls = 1

\* C10: when setup_driver or driver.get(archive_url) raises, get_image_urls
\* raises nothing and returns the empty list, and main calls no download.
C10_FatalDiscovery ==
    (setupFailed \/ getFailed) =>
        /\ dpc # "raised"
        /\ dpc = "returned" => ret = <<>>
        /\ mpc # "download"
        /\ phase = "idle"

\* C10 witness: the archive page failed to load, the browser was released and
\* main ended on its "no image URLs" branch.
C10_Witness ==
    /\ getFailed /\ quitCalls = 1 /\ mpc = "no_images"

\* ------------------------------------------ download_images: claims, part 2

Failed(i) == Finished(i) /\ ~result[i]

\* C11: a record that ends in failure after its retries aborts nothing:
\* download_images never raises, and when it returns every record of the batch,
\* the failed one and each of the others, was attempted (its file was looked for
\* or requested) and has its own outcome.
C11_FailureDoesNotAbortBatch ==
    /\ phase \in {"running", "returned"}
    /\ \A i \in Tasks : Failed(i) => attempt[i] = MaxRetries
    /\ phase = "returned" =>
          \A j \in 1..N :
             /\ j \in Tasks
             /\ tpc[j] = "collected"
             /\ OutcomesOf(j) # {}
             /\ (skipped[j] \/ reqs[j] >= 1)

\* C11 witness: one worker; the first record used up its retries and its failure
\* was taken first, then the second record was downloaded and the call returned.
C11_Witness ==
    /\ phase = "returned" /\ N = 2 /\ maxWorkers = 1
    /\ attempt[1] = MaxRetries /\ ~result[1]
    /\ result[2] /\ gotOk[2] /\ ~skipped[2]
    /\ Len(outcomes) = 2
    /\ outcomes[1].task = 1 /\ ~outcomes[1].success
    /\ outcomes[2].task = 2 /\ outcomes[2].success

\* ------------------------------------------- get_image_urls: claims, part 2

\* C12: the list get_image_urls builds and returns keeps the order of the
\* listing: its pairs come from thumbnails of strictly increasing index, so a
\* thumbnail gives at most one pair, and each pair holds a link of its own
\* thumbnail's detail page.
C12_ListingOrderKept ==
    /\ \A a, b \in 1..Len(image_data) :
          a < b => image_data[a].link < image_data[b].link
    /\ \A a \in 1..Len(image_data) :
          /\ image_data[a].link \in 1..Len(thumbnails)
          /\ \E n \in 1..Len(thumbnails[image_data[a].link].page) :
                thumbnails[image_data[a].link].page[n].href = image_data[a].url
    /\ dpc = "returned" => ret = image_data

\* C12 witness: two thumbnails, each gave a pair, returned in listing order.
C12_Witness ==
    /\ dpc = "returned"
    /\ Len(ret) = 2
    /\ ret[1].link = 1 /\ ret[2].link = 2
    /\ ret[1].name # ret[2].name

\* No <a> of the page is matched by one of download_selectors.
NoAssetLink(page) ==
    \A n \in 1..Len(page) :
       /\ ~page[n].download
       /\ ~HasToken(page[n].href, "original")
       /\ ~HasToken(page[n].href, "UHD")
       /\ ~HasSuffixMark(page[n].href, "jpg")
       /\ ~HasSuffixMark(page[n].href, "png")

\* C13: a thumbnail whose detail page holds no link that a download selector
\* matches gives no pair; when the last selector has timed out the code goes to
\* driver.close() with image_data as it was, the tab is gone once close() has
\* returned, and the switch back to the archive window starts the iteration of
\* the next thumbnail (or ends the loop after the last one).
C13_NoMatchSkipsLink ==
    /\ [](\A k \in 1..Len(thumbnails) :
            NoAssetLink(thumbnails[k].page) =>
               /\ k \notin contributed
               /\ \A a \in 1..Len(image_data) : image_data[a].link # k
               /\ (idx = k /\ dpc = "back") => handles = <<0>>
               /\ (idx > k /\ k \notin faulted) => k \notin Range(handles))
    /\ [][/\ (/\ dpc = "resolve"
               /\ NoAssetLink(thumbnails[idx].page)
               /\ dpc' \notin {"resolve", "h_len"})
              => (dpc' = "close" /\ image_data' = image_data /\ idx' = idx)
          /\ (/\ dpc = "back"
               /\ NoAssetLink(thumbnails[idx].page)
               /\ dpc' \notin {"back", "h_len"})
              => /\ idx' = idx + 1
                 /\ focus' = 0
                 /\ handles' = <<0>>
                 /\ dpc' = IF idx < Len(thumbnails) THEN "attr" ELSE "finally"]_vars

\* C13 witness: the first detail page holds a link but none that a selector
\* matches; its tab was opened and closed without a fault, and the second
\* thumbnail was then processed and gave the only pair of the result.
C13_Witness ==
    /\ dpc = "returned"
    /\ Len(thumbnails) = 2
    /\ thumbnails[1].page = PageNav
    /\ 1 \in visited /\ 1 \notin faulted
    /\ opened = 2
    /\ Len(ret) = 1 /\ ret[1].link = 2
    /\ handles = <<>>

\* The detail url a pair of image_data was made from.
DetailUrlOf(r) == thumbnails[r.link].href

\* C14: two pairs made from different detail urls have different names.
C14_NamesUniquePerDetailUrl ==
    \A a, b \in 1..Len(image_data) :
       DetailUrlOf(image_data[a]) # DetailUrlOf(image_data[b])
          => image_data[a].name # image_data[b].name

\* C15: the name made for the detail url .../detail/abc123 and the
\* asset url .../foo.png holds the path of the detail url ("detail" and "abc123",
\* the separator between them replaced) and ends in ".png".
C15_NameIsSanitizedPath ==
    \A a \in 1..Len(image_data) :
       (DetailUrlOf(image_data[a]) = HrefA /\ image_data[a].url = AssetPng)
          => /\ HasToken(image_data[a].name, "detail")
             /\ HasToken(image_data[a].name, "abc123")
             /\ HasSuffixMark(image_data[a].name, "png")

\* The place in download_selectors of the first selector that matches <a> a
\* (6: none does).
Tier(a) ==
    IF a.download THEN 1
    ELSE IF HasToken(a.href, "original") THEN 2
    ELSE IF HasToken(a.href, "UHD") THEN 3
    ELSE IF HasSuffixMark(a.href, "jpg") THEN 4
    ELSE IF HasSuffixMark(a.href, "png") THEN 5
    ELSE 6

\* C16: the link taken from a detail page is one that a selector matches and no
\* link of the page is matched by an earlier selector of the list (download
\* attribute, 'original', 'UHD', '.jpg', '.png'): a '.jpg' or '.png' link is not
\* taken from a page that holds a download, 'original' or 'UHD' link.
C16_SelectorPriority ==
    /\ dpc = "derive" =>
          /\ Tier(thumbnails[idx].page[download_link]) = dsel
          /\ \A m \in 1..Len(thumbnails[idx].page) :
                Tier(thumbnails[idx].page[m]) >= dsel
    /\ \A a \in 1..Len(image_data) :
          LET page == thumbnails[image_data[a].link].page
          IN  \E n \in 1..Len(page) :
                 /\ page[n].href = image_data[a].url
                 /\ Tier(page[n]) <= 5
                 /\ \A m \in 1..Len(page) : Tier(page[n]) <= Tier(page[m])

\* C16 witness: a page whose first link is a '.jpg' one and whose second is
\* download-marked gave the download-marked link; a page with a '.png' link
\* ahead of a 'UHD' one gave the 'UHD' link.
C16_Witness ==
    /\ dpc = "returned"
    /\ Len(ret) = 2
    /\ thumbnails[1].page = PagePng /\ ret[1].url = AssetPng
    /\ thumbnails[2].page = PageUhdPng /\ ret[2].url = AssetUhd

\* The program points inside the `for index, thumbnail in enumerate(...)` loop.
InLoop ==
    dpc \in {"attr", "open", "switch", "resolve", "derive", "close", "back",
             "h_len", "h_close", "h_switch"}

\* C17: whenever an iteration of the thumbnail loop starts, after a failed
\* iteration too, the archive window is the only open window and has the focus;
\* at most one detail tab is open at a time, and the archive window is not
\* closed while the loop runs.
C17_OnlyArchiveWindowAtIterationStart ==
    /\ dpc = "attr" => (handles = <<0>> /\ focus = 0)
    /\ Len(handles) <= 2
    /\ InLoop => 0 \in Range(handles)

\* ------------------------------------------ download_images: claims, part 3

\* C18: no more than max_workers records are inside download_image_with_retry at
\* once; a record that left the queue was taken by one pool thread, and a thread
\* has at most one record in hand, so it finishes that one before the next.
C18_PoolBound ==
    /\ Cardinality(Running) <= maxWorkers
    /\ \A i \in Tasks :
          /\ worker[i] \in 0..maxWorkers
          /\ (tpc[i] = "queued") = (worker[i] = 0)
    /\ \A i, j \in Running : worker[i] = worker[j] => i = j

\* C18 witness: two records and one thread; the first record is finished, the
\* same thread is inside the second.
C18_Witness ==
    /\ N = 2 /\ maxWorkers = 1
    /\ Finished(1) /\ tpc[2] = "write"
    /\ worker[1] = 1 /\ worker[2] = 1

\* C19: under a fair scheduler download_images returns, and no record makes more
\* than max_retries attempts or requests on the way.
C19_DownloadAllTerminates ==
    /\ (phase = "running") ~> (phase = "returned")
    /\ [](\A i \in Tasks : attempt[i] <= MaxRetries /\ reqs[i] <= MaxRetries)

\* C19 witness: the call returned with one record that failed on each of its
\* max_retries requests and one that was written on its last attempt.
C19_Witness ==
    /\ phase = "returned" /\ N = 2
    /\ ~result[1] /\ reqs[1] = MaxRetries /\ attempt[1] = MaxRetries
    /\ result[2] /\ reqs[2] = MaxRetries /\ ~skipped[2]

\* C20: a record whose outcome is success has a file at its target path when
\* the worker returns, when the outcome is taken, and when download_images
\* returns.
C20_SuccessHasFile ==
    /\ \A i \in Tasks :
          (Finished(i) /\ result[i]) => disk[NameOf(i)].exists
    /\ \A k \in 1..Len(outcomes) :
          outcomes[k].success => disk[outcomes[k].name].exists

\* C20 witness: download_images returned with a record whose file was written
\* in this call and is on disk.
C20_Witness ==
    /\ phase = "returned"
    /\ \E k \in 1..Len(outcomes) :
          /\ outcomes[k].success
          /\ gotOk[outcomes[k].task] /\ ~skipped[outcomes[k].task]
          /\ ~disk0[outcomes[k].name].exists
          /\ disk[outcomes[k].name] = FullFile

====
